---- MODULE Spec2Model ----
(***************************************************************************)
(* A model of the PDF research scraper: the Acquisition Scheduler          *)
(* (scrape_pdfs.main), the Item Pipeline (process_item) with Fetch &       *)
(* Validate (download_file, is_valid_pdf) running in the scheduler's       *)
(* thread pool over one shared output directory, and the Topic Fan-out     *)
(* (app.process_topics_and_scrape) of the jobs of app.py's thread pool.    *)
(***************************************************************************)
EXTENDS Integers, Sequences, FiniteSets, TLC

(***************************************************************************)
(* Program constants.                                                      *)
(***************************************************************************)
per_page == 20
NameLimit == 200
MinPerTopic == 5
WorkerCap == 5
AttemptFactor == 3
OffsetFactor == 5
SubmitBuffer == 10
MinPdfBytes == 1024

(***************************************************************************)
(* Bounds of the model.                                                    *)
(***************************************************************************)
MaxTarget == 2
NumDois == 2
MaxPageLen == 2
NumJobs == 2
NumTopics == 2
MaxRequested == 11

VARIABLES
    args_max,     \* args.max: the requested target_count
    emailOk,      \* args.email is set and contains "@"
    feed,         \* the upstream services of this run (fixed during a run)
    mpc,          \* position of the main thread in main()
    offset,       \* Crossref pagination cursor
    downloaded,   \* successes tallied so far
    attempts,     \* identifiers submitted so far
    seen_dois,    \* set of identifiers already submitted
    futures,      \* main's list of futures not yet tallied (future ids)
    page,         \* items of the current page still to be looked at
    todo,         \* rest of the list(futures) copy a tally/drain loop walks
    pauses,       \* number of politeness pauses taken between batches
    timedOut,     \* futures whose future.result(timeout=120) timed out
    summary,      \* what main printed at its end
    effects,      \* what main did outside itself: makedirs, searches, complaint
    submitted,    \* submitted[f]: the DOI handed to process_item as future f
    pc,           \* pc[f]: position of future f in its item pipeline
    fate,         \* fate[f]: what the upstream services answered for future f
    handle,       \* handle[f]: inode future f holds open for writing (0: none)
    result,       \* result[f]: the (success, message) process_item returns
    fs,           \* the output directory: path -> file
    sys_stdout,   \* sys.stdout of the process
    jpc,          \* jpc[j]: position of job j in process_topics_and_scrape
    topic,        \* topic[j]: index of the topic job j is processing
    old_stdout,   \* old_stdout[j]: the stream job j saved at line 358
    all_results,  \* all_results[j]: job j's results, one per processed topic
    raised,       \* raised[j]: the topics of job j whose processing raised
    max_pdfs,     \* max_pdfs[j]: the count requested from job j
    temp_dir,     \* temp_dir[j]: the .pdf names main left in the topic's directory
    orphans,      \* pipelines of an earlier main() call that are still running
    jobs,         \* jobs[j]: the registry entry of job j
    main_dir,     \* main_dir[j]: the names in job j's consolidated directory
    topic_log,    \* topic_log[j]: the captured output of the topic holds main's warning
    output_queue, \* output_queue[j]: what run_scraper put on job j's stream
    job_id,       \* job_id[r]: the identifier start_scraping made for request r
    rpc,          \* rpc[r]: position of request r in start_scraping and run_scraper
    spc,          \* spc[i]: position of the log stream a client opened for job i
    response      \* response[i]: the last answer of download_results for job i

envVars == <<args_max, emailOk, feed>>

mainVars == <<mpc, offset, downloaded, attempts, seen_dois, futures, page, todo,
              pauses, timedOut, summary, effects>>

workVars == <<submitted, pc, fate, handle, result>>

fanVars == <<sys_stdout, jpc, topic, old_stdout, all_results, raised>>

webVars == <<job_id, rpc, spc, response>>

jobVars == <<max_pdfs, temp_dir, topic_log, orphans, jobs, main_dir, output_queue,
             webVars>>

vars == <<envVars, mainVars, workVars, fs, fanVars, jobVars>>

(***************************************************************************)
(* Helpers.                                                                *)
(***************************************************************************)
Min(a, b) == IF a <= b THEN a ELSE b

Max(a, b) == IF a >= b THEN a ELSE b

RECURSIVE SeqsUpTo(_, _)
\* All sequences over S of length at most n.
SeqsUpTo(S, n) ==
    IF n = 0 THEN {<<>>}
    ELSE LET shorter == SeqsUpTo(S, n - 1)
         IN  shorter \cup {Append(s, x) : s \in shorter, x \in S}

Without(seq, x) == SelectSeq(seq, LAMBDA y : y # x)

NoDoi == 0

Futs == DOMAIN submitted

Fates == {"excluded", "noOA", "httpErr", "small", "notPDF", "ok"}

NoFile == [ino |-> 0, size |-> 0, hdr |-> "none"]

Pending == [ok |-> FALSE, msg |-> "pending"]

(***************************************************************************)
(* The upstream services of a run, fixed while it runs.  The index holds   *)
(* the works 1..feed.works.  An unscripted feed answers every search with  *)
(* any page of at most MaxPageLen items, Unpaywall and the PDF host answer *)
(* anything, and any pipeline may outlast the 120 s the tally waits.  A    *)
(* scripted feed serves the works in order, per_page to a page; exactly    *)
(* the works of feed.good have a resolvable, valid OA PDF and no pipeline  *)
(* outlasts the tally's wait.                                              *)
(***************************************************************************)
Dois == 1..feed.works

\* The destination file name process_item builds for work d (lines 184-185:
\* sanitized date, journal and title).  With feed.shared, works 2k-1 and 2k
\* have the same date, journal and title, hence the same name.
dest_path(d) == IF feed.shared THEN (d + 1) \div 2 ELSE d

Paths == {dest_path(d) : d \in Dois}

FreeFeed(shared) ==
    [scripted |-> FALSE, works |-> NumDois, shared |-> shared, good |-> {},
     long |-> {}]

\* Line 184: the length of "<date> - <journal> - <title>.pdf" for work d; the
\* works of feed.long have a title that takes it past the limit of line 108.
raw_len(d) == IF d \in feed.long THEN NameLimit + 1 ELSE NameLimit

\* sanitize_filename, line 108: s[:200]; the length of the name that is left.
sanitize_filename(n) == IF n > NameLimit THEN NameLimit ELSE n

\* The extension is the last 4 characters of the raw name: it is whole in the
\* sanitized name only if nothing was cut (app.py line 379: endswith('.pdf')).
EndsWithPdf(p) ==
    \A d \in Dois : dest_path(d) = p => sanitize_filename(raw_len(d)) = raw_len(d)

\* What Unpaywall and the PDF host may answer for work d.
FatesOf(d) ==
    IF feed.scripted THEN (IF d \in feed.good THEN {"ok"} ELSE {"noOA"}) ELSE Fates

\* The pipeline of work d may outlast future.result(timeout=120).
Slow(d) == ~feed.scripted

\* query_crossref: the answers the search may give at this offset; ok is
\* FALSE for the None it returns when the request raises.
query_crossref(off) ==
    IF feed.scripted
    THEN {[ok |-> TRUE,
           items |-> SelectSeq([i \in 1..per_page |-> off + i],
                               LAMBDA d : d \in Dois)]}
    ELSE {[ok |-> TRUE, items |-> pg] :
              pg \in SeqsUpTo(Dois \cup {NoDoi}, MaxPageLen)}
         \cup {[ok |-> FALSE, items |-> <<>>]}

\* Line 267 without the min: the pool always gets 5 threads.
max_workers_Uncapped == WorkerCap

\* Line 267.
max_workers == Min(args_max, WorkerCap)

\* Line 268.
max_attempts == args_max * AttemptFactor

path(f) == dest_path(submitted[f])

Running == {f \in Futs : pc[f] \notin {"queued", "done"}}

Done(f) == pc[f] = "done"

(***************************************************************************)
(* Initial state: main() has been called, nothing has run.                 *)
(***************************************************************************)
InitRun ==
    /\ mpc = "start"
    /\ offset = 0
    /\ downloaded = 0
    /\ attempts = 0
    /\ seen_dois = {}
    /\ futures = <<>>
    /\ page = <<>>
    /\ todo = <<>>
    /\ pauses = 0
    /\ timedOut = {}
    /\ summary = [printed |-> FALSE, downloaded |-> 0, warned |-> FALSE]
    /\ effects = [outdir |-> FALSE, searched |-> FALSE, complained |-> FALSE]
    /\ submitted = <<>>
    /\ pc = <<>>
    /\ fate = <<>>
    /\ handle = <<>>
    /\ result = <<>>
    /\ fs = [p \in Paths |-> NoFile]

\* A stream sys.stdout may be: the console the process started with, or the
\* StreamToQueue a job made for one of its topics (line 360).
Console == [job |-> 0, topic |-> 0]

StreamToQueue(j, k) == [job |-> j, topic |-> k]

\* No job of app.py is running: stdout is the process's own stream.
InitFan ==
    /\ sys_stdout = Console
    /\ jpc = [j \in 1..NumJobs |-> "idle"]
    /\ topic = [j \in 1..NumJobs |-> 1]
    /\ old_stdout = [j \in 1..NumJobs |-> Console]
    /\ all_results = [j \in 1..NumJobs |-> <<>>]
    /\ raised = [j \in 1..NumJobs |-> {}]

\* A job that start_scraping has not registered yet.
NoJob == [status |-> "none", warned |-> FALSE, pdf_count |-> 0, requested_count |-> 0]

\* No job has been asked for; m is the count each of them will be asked for.
InitJobs(m) ==
    /\ max_pdfs = [j \in 1..NumJobs |-> m]
    /\ temp_dir = [j \in 1..NumJobs |-> {}]
    /\ topic_log = [j \in 1..NumJobs |-> FALSE]
    /\ orphans = 0
    /\ jobs = [j \in 1..NumJobs |-> NoJob]
    /\ main_dir = [j \in 1..NumJobs |-> {}]
    /\ output_queue = [j \in 1..NumJobs |-> [msg |-> "none", registered |-> FALSE]]
    /\ job_id = [r \in 1..NumJobs |-> 0]
    /\ rpc = [r \in 1..NumJobs |-> "idle"]
    /\ spc = [i \in 1..NumJobs |-> "closed"]
    /\ response = [i \in 1..NumJobs |-> "none"]

Init ==
    /\ args_max \in 1..MaxTarget
    /\ emailOk \in BOOLEAN
    /\ feed \in {FreeFeed(shared) : shared \in BOOLEAN}
    /\ InitRun
    /\ InitFan
    /\ InitJobs(1)

(***************************************************************************)
(* The main thread: scrape_pdfs.main.                                      *)
(***************************************************************************)
\* Line 256 taken for every email.
ValidEmail_Always == TRUE

\* Line 256: the email is set and contains "@".
ValidEmail == emailOk

\* main, lines 255-278: the email check with its complaint and return, then
\* makedirs and the executor.
CheckEmail ==
    /\ mpc = "start"
    /\ IF ValidEmail
       THEN /\ mpc' = "loop"
            /\ effects' = [effects EXCEPT !.outdir = TRUE]
       ELSE /\ mpc' = "exit"
            /\ effects' = [effects EXCEPT !.complained = TRUE]
    /\ UNCHANGED <<offset, downloaded, attempts, seen_dois, futures, page, todo,
                   pauses, timedOut, summary>>
    /\ UNCHANGED <<envVars, workVars, fs, fanVars, jobVars>>

\* The while condition of line 282.
LoopCondition ==
    /\ downloaded < args_max
    /\ attempts < max_attempts
    /\ offset < max_attempts * OffsetFactor

\* Lines 282-289: the loop test and one search; a failed search or an empty
\* page breaks out of the loop.
Search ==
    /\ mpc = "loop"
    /\ LoopCondition
    /\ \E resp \in query_crossref(offset) :
          IF ~resp.ok \/ resp.items = <<>>
          THEN /\ mpc' = IF futures = <<>> THEN "shutdown" ELSE "drain"
               /\ todo' = futures
               /\ page' = <<>>
          ELSE /\ mpc' = "submit"
               /\ page' = resp.items
               /\ todo' = todo
    /\ effects' = [effects EXCEPT !.searched = TRUE]
    /\ UNCHANGED <<offset, downloaded, attempts, seen_dois, futures, pauses,
                   timedOut, summary>>
    /\ UNCHANGED <<envVars, workVars, fs, fanVars, jobVars>>

\* Line 282 false: the loop ends and main goes on to the futures left.
ExitLoop ==
    /\ mpc = "loop"
    /\ ~LoopCondition
    /\ mpc' = IF futures = <<>> THEN "shutdown" ELSE "drain"
    /\ todo' = futures
    /\ UNCHANGED <<offset, downloaded, attempts, seen_dois, futures, page,
                   pauses, timedOut, summary>>
    /\ UNCHANGED effects
    /\ UNCHANGED <<envVars, workVars, fs, fanVars, jobVars>>

\* Line 294: enough items are in flight.
BufferFull == Len(futures) >= (args_max - downloaded) + SubmitBuffer

\* Line 298: the item is skipped.
Skipped(doi) == doi = NoDoi \/ doi \in seen_dois

\* Line 300 left out: the identifier is not remembered.
MarkSeen_Forget(doi) == seen_dois

\* Line 300.
MarkSeen(doi) == seen_dois \cup {doi}

\* Line 310 left out: the cursor does not advance.
NextOffset_Stuck == offset

\* Line 310.
NextOffset == offset + per_page

\* Lines 292-310: one turn of the for loop over the page's items, or its
\* end (the page is exhausted, or line 295 breaks) with offset += per_page.
Submit ==
    /\ mpc = "submit"
    /\ IF page = <<>> \/ BufferFull
       THEN /\ offset' = NextOffset
            /\ page' = <<>>
            /\ todo' = futures
            /\ mpc' = IF futures = <<>> THEN "loop" ELSE "tally"
            /\ UNCHANGED <<seen_dois, attempts, futures, workVars>>
       ELSE LET doi == Head(page)
                f   == Len(submitted) + 1
            IN  /\ page' = Tail(page)
                /\ UNCHANGED <<offset, todo, mpc>>
                /\ IF Skipped(doi)
                   THEN UNCHANGED <<seen_dois, attempts, futures, workVars>>
                   ELSE /\ seen_dois' = MarkSeen(doi)
                        /\ attempts' = attempts + 1
                        /\ submitted' = Append(submitted, doi)
                        /\ futures' = Append(futures, f)
                        /\ pc' = Append(pc, "queued")
                        /\ fate' = Append(fate, "unknown")
                        /\ handle' = Append(handle, 0)
                        /\ result' = Append(result, Pending)
    /\ UNCHANGED <<downloaded, pauses, timedOut, summary>>
    /\ UNCHANGED effects
    /\ UNCHANGED <<envVars, fs, fanVars, jobVars>>

\* Lines 318-320 and 345-347: a success is counted.
Count(f) == IF result[f].ok THEN downloaded + 1 ELSE downloaded

\* Lines 332 and 336-338 after one future of the tally: the break on the
\* target, the end of the for loop, the pause between batches.
AfterTally(dl, fut, rest) ==
    IF dl >= args_max \/ rest = <<>>
    THEN /\ mpc' = "loop"
         /\ todo' = <<>>
         /\ pauses' = IF dl < args_max /\ fut # <<>> THEN pauses + 1 ELSE pauses
    ELSE /\ mpc' = "tally"
         /\ todo' = rest
         /\ pauses' = pauses

\* Lines 313-323: future.result returns in time.
TallyResult ==
    /\ mpc = "tally"
    /\ LET f == Head(todo)
       IN  /\ Done(f)
           /\ downloaded' = Count(f)
           /\ futures' = Without(futures, f)
           /\ AfterTally(downloaded', futures', Tail(todo))
    /\ UNCHANGED <<offset, attempts, seen_dois, page, timedOut, summary>>
    /\ UNCHANGED effects
    /\ UNCHANGED <<envVars, workVars, fs, fanVars, jobVars>>

\* Lines 324-326: future.result(timeout=120) raises TimeoutError.
TallyTimeout ==
    /\ mpc = "tally"
    /\ LET f == Head(todo)
       IN  /\ ~Done(f)
           /\ Slow(submitted[f])
           /\ timedOut' = timedOut \cup {f}
           /\ futures' = Without(futures, f)
           /\ AfterTally(downloaded, futures', Tail(todo))
    /\ UNCHANGED <<offset, downloaded, attempts, seen_dois, page, summary>>
    /\ UNCHANGED effects
    /\ UNCHANGED <<envVars, workVars, fs, fanVars, jobVars>>

\* Lines 341-347: a remaining future's result arrives in time.
DrainResult ==
    /\ mpc = "drain"
    /\ LET f == Head(todo)
       IN  /\ Done(f)
           /\ downloaded' = Count(f)
    /\ todo' = Tail(todo)
    /\ mpc' = IF Tail(todo) = <<>> THEN "shutdown" ELSE "drain"
    /\ UNCHANGED <<offset, attempts, seen_dois, futures, page, pauses, timedOut,
                   summary>>
    /\ UNCHANGED effects
    /\ UNCHANGED <<envVars, workVars, fs, fanVars, jobVars>>

\* Lines 348-349: a remaining future times out.
DrainTimeout ==
    /\ mpc = "drain"
    /\ LET f == Head(todo)
       IN  /\ ~Done(f)
           /\ Slow(submitted[f])
           /\ timedOut' = timedOut \cup {f}
    /\ todo' = Tail(todo)
    /\ mpc' = IF Tail(todo) = <<>> THEN "shutdown" ELSE "drain"
    /\ UNCHANGED <<offset, downloaded, attempts, seen_dois, futures, page,
                   pauses, summary>>
    /\ UNCHANGED effects
    /\ UNCHANGED <<envVars, workVars, fs, fanVars, jobVars>>

\* Leaving the with block of line 278 without waiting for the futures.
Shutdown_NoWait ==
    /\ mpc = "shutdown"
    /\ mpc' = "report"
    /\ UNCHANGED <<offset, downloaded, attempts, seen_dois, futures, page, todo,
                   pauses, timedOut, summary, effects>>
    /\ UNCHANGED <<envVars, workVars, fs, fanVars, jobVars>>

\* Leaving the with block of line 278: executor.shutdown(wait=True) returns
\* once every submitted future has run to its end.
Shutdown ==
    /\ mpc = "shutdown"
    /\ \A f \in Futs : Done(f)
    /\ mpc' = "report"
    /\ UNCHANGED <<offset, downloaded, attempts, seen_dois, futures, page, todo,
                   pauses, timedOut, summary>>
    /\ UNCHANGED effects
    /\ UNCHANGED <<envVars, workVars, fs, fanVars, jobVars>>

\* Line 354 with <= for <.
Shortfall_OffByOne(dl) == dl <= args_max

\* Line 354: the shortfall warning is printed.
Shortfall(dl) == dl < args_max

\* Lines 353-356: the summary.
Report ==
    /\ mpc = "report"
    /\ summary' = [printed |-> TRUE, downloaded |-> downloaded,
                   warned |-> Shortfall(downloaded)]
    /\ mpc' = "exit"
    /\ UNCHANGED <<offset, downloaded, attempts, seen_dois, futures, page, todo,
                   pauses, timedOut>>
    /\ UNCHANGED effects
    /\ UNCHANGED <<envVars, workVars, fs, fanVars, jobVars>>

(***************************************************************************)
(* The worker threads: process_item, download_file, is_valid_pdf.          *)
(* The output directory is a Linux directory: open(path, "wb") creates the *)
(* file or truncates the one that is there, os.remove unlinks the name and *)
(* a writer that still holds the unlinked file writes where nobody sees.   *)
(***************************************************************************)
\* What the PDF host sends for a fate: the bytes received and their first 4.
Body(ft) ==
    CASE ft = "small"  -> [size |-> 600, hdr |-> "%PDF"]
      [] ft = "notPDF" -> [size |-> 2048, hdr |-> "<htm"]
      [] OTHER         -> [size |-> 1024, hdr |-> "%PDF"]

Exists(p) == fs[p].ino # 0

\* os.remove inside try/except, after an os.path.exists test.
Removed(p) == [fs EXCEPT ![p] = NoFile]

\* open(dest_path, "wb").
Opened(p, f) ==
    [fs EXCEPT ![p] = IF Exists(p) THEN [ino |-> fs[p].ino, size |-> 0, hdr |-> "none"]
                      ELSE [ino |-> f, size |-> 0, hdr |-> "none"]]

\* f.write of the whole body through a handle on inode h, from offset 0.
Written(p, h, body) ==
    IF Exists(p) /\ fs[p].ino = h
    THEN [fs EXCEPT ![p] = [ino |-> h, size |-> Max(fs[p].size, body.size),
                            hdr |-> body.hdr]]
    ELSE fs

Failure(reason) == [ok |-> FALSE, msg |-> reason]

Success == [ok |-> TRUE, msg |-> "Saved"]

\* A worker thread of the pool takes the oldest queued work item.
Start(f) ==
    /\ pc[f] = "queued"
    /\ \A g \in Futs : g < f => pc[g] # "queued"
    /\ Cardinality(Running) < max_workers
    /\ pc' = [pc EXCEPT ![f] = "started"]
    /\ UNCHANGED <<submitted, fate, handle, result>>
    /\ UNCHANGED <<envVars, mainVars, fs, fanVars, jobVars>>

\* process_item, lines 159-188, and download_file, lines 115-119: the
\* publisher filter, the Unpaywall lookup, the request for the PDF and
\* open(dest_path, "wb").  Up to the open nothing shared is read or written.
Fetch(f) ==
    /\ pc[f] = "started"
    /\ \E ft \in FatesOf(submitted[f]) :
          /\ fate' = [fate EXCEPT ![f] = ft]
          /\ IF ft = "excluded"
             THEN /\ result' = [result EXCEPT ![f] = Failure("publisher excluded")]
                  /\ pc' = [pc EXCEPT ![f] = "done"]
                  /\ UNCHANGED <<fs, handle>>
             ELSE IF ft = "noOA"
             THEN /\ result' = [result EXCEPT ![f] = Failure("no OA location")]
                  /\ pc' = [pc EXCEPT ![f] = "done"]
                  /\ UNCHANGED <<fs, handle>>
             ELSE IF ft = "httpErr"
             THEN /\ pc' = [pc EXCEPT ![f] = "except"]
                  /\ UNCHANGED <<fs, handle, result>>
             ELSE /\ fs' = Opened(path(f), f)
                  /\ handle' = [handle EXCEPT ![f] = fs'[path(f)].ino]
                  /\ pc' = [pc EXCEPT ![f] = "write"]
                  /\ result' = result
    /\ UNCHANGED submitted
    /\ UNCHANGED <<envVars, mainVars, fanVars, jobVars>>

\* download_file, line 130: the received bytes are too few.
TooSmall(n) == n < MinPdfBytes

\* download_file, lines 119-133: the chunks are written and the with block
\* closes the file; the size check raises, otherwise download_file returns
\* True.
Write(f) ==
    /\ pc[f] = "write"
    /\ fs' = Written(path(f), handle[f], Body(fate[f]))
    /\ handle' = [handle EXCEPT ![f] = 0]
    /\ pc' = [pc EXCEPT ![f] =
                 IF TooSmall(Body(fate[f]).size) THEN "except" ELSE "exists"]
    /\ UNCHANGED <<submitted, fate, result>>
    /\ UNCHANGED <<envVars, mainVars, fanVars, jobVars>>

\* download_file, lines 134-139, and process_item, line 211: the except
\* clause removes the destination file and the download has failed.
Except(f) ==
    /\ pc[f] = "except"
    /\ fs' = IF Exists(path(f)) THEN Removed(path(f)) ELSE fs
    /\ result' = [result EXCEPT ![f] = Failure("failed to download")]
    /\ pc' = [pc EXCEPT ![f] = "return"]
    /\ UNCHANGED <<submitted, fate, handle>>
    /\ UNCHANGED <<envVars, mainVars, fanVars, jobVars>>

\* process_item, lines 191 and 208-209: os.path.exists(dest_path).
CheckExists(f) ==
    /\ pc[f] = "exists"
    /\ IF Exists(path(f))
       THEN /\ pc' = [pc EXCEPT ![f] = "valid"]
            /\ result' = result
       ELSE /\ pc' = [pc EXCEPT ![f] = "return"]
            /\ result' = [result EXCEPT ![f] = Failure("file not found")]
    /\ UNCHANGED <<submitted, fate, handle>>
    /\ UNCHANGED <<envVars, mainVars, fs, fanVars, jobVars>>

\* is_valid_pdf, lines 146-151: the first 4 bytes are %PDF; a file that
\* cannot be opened is not valid.
is_valid_pdf(p) == Exists(p) /\ fs[p].hdr = "%PDF"

\* process_item, line 193.
CheckValid(f) ==
    /\ pc[f] = "valid"
    /\ pc' = [pc EXCEPT ![f] = IF is_valid_pdf(path(f)) THEN "size" ELSE "rmInvalid"]
    /\ UNCHANGED <<submitted, fate, handle, result>>
    /\ UNCHANGED <<envVars, mainVars, fs, fanVars, jobVars>>

\* process_item, lines 194-197.
RemoveInvalid(f) ==
    /\ pc[f] = "rmInvalid"
    /\ fs' = IF Exists(path(f)) THEN Removed(path(f)) ELSE fs
    /\ result' = [result EXCEPT ![f] = Failure("not a valid PDF")]
    /\ pc' = [pc EXCEPT ![f] = "return"]
    /\ UNCHANGED <<submitted, fate, handle>>
    /\ UNCHANGED <<envVars, mainVars, fanVars, jobVars>>

\* process_item, lines 200-207 and 212-213: os.path.getsize raises when the
\* file is gone, which the outer except turns into a failure.
CheckSize(f) ==
    /\ pc[f] = "size"
    /\ IF ~Exists(path(f))
       THEN /\ pc' = [pc EXCEPT ![f] = "return"]
            /\ result' = [result EXCEPT ![f] = Failure("error processing item")]
       ELSE IF TooSmall(fs[path(f)].size)
       THEN /\ pc' = [pc EXCEPT ![f] = "rmSmall"]
            /\ result' = result
       ELSE /\ pc' = [pc EXCEPT ![f] = "return"]
            /\ result' = [result EXCEPT ![f] = Success]
    /\ UNCHANGED <<submitted, fate, handle>>
    /\ UNCHANGED <<envVars, mainVars, fs, fanVars, jobVars>>

\* process_item, lines 202-205.
RemoveSmall(f) ==
    /\ pc[f] = "rmSmall"
    /\ fs' = IF Exists(path(f)) THEN Removed(path(f)) ELSE fs
    /\ result' = [result EXCEPT ![f] = Failure("too small")]
    /\ pc' = [pc EXCEPT ![f] = "return"]
    /\ UNCHANGED <<submitted, fate, handle>>
    /\ UNCHANGED <<envVars, mainVars, fanVars, jobVars>>

\* process_item returns its outcome: the future is done.
Return(f) ==
    /\ pc[f] = "return"
    /\ pc' = [pc EXCEPT ![f] = "done"]
    /\ UNCHANGED <<submitted, fate, handle, result>>
    /\ UNCHANGED <<envVars, mainVars, fs, fanVars, jobVars>>

Next ==
    \/ CheckEmail
    \/ Search
    \/ ExitLoop
    \/ Submit
    \/ TallyResult
    \/ TallyTimeout
    \/ DrainResult
    \/ DrainTimeout
    \/ Shutdown
    \/ Report
    \/ \E f \in Futs : Start(f)
    \/ \E f \in Futs : Fetch(f)
    \/ \E f \in Futs : Write(f)
    \/ \E f \in Futs : Except(f)
    \/ \E f \in Futs : CheckExists(f)
    \/ \E f \in Futs : CheckValid(f)
    \/ \E f \in Futs : RemoveInvalid(f)
    \/ \E f \in Futs : CheckSize(f)
    \/ \E f \in Futs : RemoveSmall(f)
    \/ \E f \in Futs : Return(f)

Spec == Init /\ [][Next]_vars

(***************************************************************************)
(* The scenario of the spec's section 8: target 5, a search that yields 3  *)
(* pages of 20 items, 60 distinct identifiers saved under 60 distinct      *)
(* names, exactly 5 of them with a resolvable, valid OA PDF.               *)
(***************************************************************************)
\* Where the 5 good works lie among the 60: at the end of the first page,
\* on the second page, on the third page.
Placements == {16..20, 21..25, 56..60}

ScenarioFeed(good) ==
    [scripted |-> TRUE, works |-> 3 * per_page, shared |-> FALSE,
     good |-> good, long |-> {}]

ScenarioInit ==
    /\ args_max = 5
    /\ emailOk = TRUE
    /\ feed \in {ScenarioFeed(good) : good \in Placements}
    /\ InitRun
    /\ InitFan
    /\ InitJobs(1)

\* The runs of Spec and the runs of the scenario.
ScenarioSpec == (Init \/ ScenarioInit) /\ [][Next]_vars

(***************************************************************************)
(* Runs against fixed upstream responses: the search serves the works of   *)
(* the index in order, each work either has a resolvable, valid OA PDF or  *)
(* has none, and no pipeline outlasts the tally's wait.  The only thing    *)
(* left open is how the threads interleave.                                *)
(***************************************************************************)
FixedFeed(shared, good) ==
    [scripted |-> TRUE, works |-> NumDois, shared |-> shared, good |-> good,
     long |-> {}]

FixedInit ==
    /\ args_max \in 1..MaxTarget
    /\ emailOk = TRUE
    /\ feed \in {FixedFeed(shared, good) :
                    shared \in BOOLEAN, good \in SUBSET (1..NumDois)}
    /\ InitRun
    /\ InitFan
    /\ InitJobs(1)

\* The runs of Spec and the runs against fixed responses.
FixedSpec == (Init \/ FixedInit) /\ [][Next]_vars

(***************************************************************************)
(* Runs against an index that fills a whole search page: per_page works    *)
(* with distinct identifiers, none of them with a resolvable OA PDF.       *)
(***************************************************************************)
FullPageFeed ==
    [scripted |-> TRUE, works |-> per_page, shared |-> FALSE, good |-> {},
     long |-> {}]

FullPageInit ==
    /\ args_max \in 1..MaxTarget
    /\ emailOk = TRUE
    /\ feed = FullPageFeed
    /\ InitRun
    /\ InitFan
    /\ InitJobs(1)

\* The runs of Spec and the runs against a full page.
FullPageSpec == (Init \/ FullPageInit) /\ [][Next]_vars

(***************************************************************************)
(* The Topic Fan-out: app.process_topics_and_scrape, called by run_scraper *)
(* in each job of app.py's thread pool.  The jobs share sys.stdout.  A job *)
(* walks its topics 1..NumTopics.  In FanSpec the run of scrape_pdfs.main  *)
(* for a topic is one step that returns or raises and leaves anything in   *)
(* the topic's directory; in TopicsSpec it is a run of the scheduler above. *)
(* Here the submissions are handled one after the other and job j is the   *)
(* job with identifier j; the registry section below takes them apart.     *)
(***************************************************************************)
Jobs == 1..NumJobs

\* run_scraper, line 77: the target handed to each topic's scheduler.
max_pdfs_per_topic(m) == Max(MinPerTopic, m \div NumTopics)

\* The loop of line 320 moves on: the next topic, or the return of line 401.
NextTopic(j) ==
    IF topic[j] = NumTopics
    THEN /\ jpc' = [jpc EXCEPT ![j] = "returned"]
         /\ topic' = topic
    ELSE /\ jpc' = [jpc EXCEPT ![j] = "prepare"]
         /\ topic' = [topic EXCEPT ![j] = topic[j] + 1]

\* start_scraping, lines 174-183, and run_scraper, lines 58-80: the job is
\* registered as running, its stream queue is made, and it calls
\* process_topics_and_scrape.
StartJob(j) ==
    /\ jpc[j] = "idle"
    /\ jpc' = [jpc EXCEPT ![j] = "prepare"]
    /\ jobs' = [jobs EXCEPT ![j] = [NoJob EXCEPT !.status = "running"]]
    /\ output_queue' = [output_queue EXCEPT ![j] = [msg |-> "none", registered |-> TRUE]]
    /\ UNCHANGED <<sys_stdout, topic, old_stdout, all_results, raised>>
    /\ UNCHANGED <<webVars, max_pdfs, temp_dir, topic_log, orphans, main_dir>>
    /\ UNCHANGED <<envVars, mainVars, workVars, fs>>

\* Lines 322-355: the topic's directory and arguments; mkdtemp or
\* parse_args may raise.
Prepare(j) ==
    /\ jpc[j] = "prepare"
    /\ \E ok \in BOOLEAN :
          IF ok
          THEN /\ jpc' = [jpc EXCEPT ![j] = "save"]
               /\ raised' = raised
          ELSE /\ jpc' = [jpc EXCEPT ![j] = "except"]
               /\ raised' = [raised EXCEPT ![j] = @ \cup {topic[j]}]
    /\ UNCHANGED <<sys_stdout, topic, old_stdout, all_results>>
    /\ UNCHANGED <<envVars, mainVars, workVars, fs, jobVars>>

\* Line 358: old_stdout = sys.stdout.
SaveStdout(j) ==
    /\ jpc[j] = "save"
    /\ old_stdout' = [old_stdout EXCEPT ![j] = sys_stdout]
    /\ jpc' = [jpc EXCEPT ![j] = "redirect"]
    /\ UNCHANGED <<sys_stdout, topic, all_results, raised>>
    /\ UNCHANGED <<envVars, mainVars, workVars, fs, jobVars>>

\* Lines 359-360: sys.stdout = StreamToQueue(output_queue).
Redirect(j) ==
    /\ jpc[j] = "redirect"
    /\ sys_stdout' = StreamToQueue(j, topic[j])
    /\ jpc' = [jpc EXCEPT ![j] = "run"]
    /\ UNCHANGED <<topic, old_stdout, all_results, raised>>
    /\ UNCHANGED <<envVars, mainVars, workVars, fs, jobVars>>

\* Line 364, the whole call in one step: scrape_pdfs_main(args) returns or
\* raises, having left some .pdf files in the topic's directory and, or
\* not, its shortfall warning in the captured output.
RunMain(j) ==
    /\ jpc[j] = "run"
    /\ \E n \in 0..1 : temp_dir' = [temp_dir EXCEPT ![j] = 1..n]
    /\ \E w \in BOOLEAN : topic_log' = [topic_log EXCEPT ![j] = w]
    /\ \E ok \in BOOLEAN :
          IF ok
          THEN /\ jpc' = [jpc EXCEPT ![j] = "finally"]
               /\ raised' = raised
          ELSE /\ jpc' = [jpc EXCEPT ![j] = "finallyRaising"]
               /\ raised' = [raised EXCEPT ![j] = @ \cup {topic[j]}]
    /\ UNCHANGED <<sys_stdout, topic, old_stdout, all_results>>
    /\ UNCHANGED <<webVars, max_pdfs, orphans, jobs, main_dir, output_queue>>
    /\ UNCHANGED <<envVars, mainVars, workVars, fs>>

\* Line 364, the call: main starts on a fresh directory (mkdtemp, line 326)
\* with its own locals and its own executor.  Pipelines a previous call
\* left running are no longer this call's.
BeginMain(j) ==
    /\ jpc[j] = "run"
    /\ jpc' = [jpc EXCEPT ![j] = "main"]
    /\ orphans' = orphans + Cardinality({f \in Futs : ~Done(f)})
    /\ mpc' = "start"
    /\ offset' = 0
    /\ downloaded' = 0
    /\ attempts' = 0
    /\ seen_dois' = {}
    /\ futures' = <<>>
    /\ page' = <<>>
    /\ todo' = <<>>
    /\ pauses' = 0
    /\ timedOut' = {}
    /\ summary' = [printed |-> FALSE, downloaded |-> 0, warned |-> FALSE]
    /\ effects' = [outdir |-> FALSE, searched |-> FALSE, complained |-> FALSE]
    /\ submitted' = <<>>
    /\ pc' = <<>>
    /\ fate' = <<>>
    /\ handle' = <<>>
    /\ result' = <<>>
    /\ fs' = [p \in Paths |-> NoFile]
    /\ temp_dir' = [temp_dir EXCEPT ![j] = {}]
    /\ topic_log' = [topic_log EXCEPT ![j] = FALSE]
    /\ UNCHANGED <<sys_stdout, topic, old_stdout, all_results, raised>>
    /\ UNCHANGED <<webVars, max_pdfs, jobs, main_dir, output_queue>>
    /\ UNCHANGED envVars

\* os.listdir of the topic's directory, filtered as in line 379.
PdfFiles == {p \in Paths : Exists(p) /\ EndsWithPdf(p)}

\* Line 364, the return: main has returned; the topic's directory holds what
\* the pipelines saved and the topic's queue what main printed while
\* sys.stdout was this topic's stream.
EndMain(j) ==
    /\ jpc[j] = "main"
    /\ mpc = "exit"
    /\ mpc' = "off"
    /\ jpc' = [jpc EXCEPT ![j] = "finally"]
    /\ temp_dir' = [temp_dir EXCEPT ![j] = PdfFiles]
    /\ topic_log' = [topic_log EXCEPT ![j] =
                        summary.warned /\ sys_stdout = StreamToQueue(j, topic[j])]
    /\ UNCHANGED <<offset, downloaded, attempts, seen_dois, futures, page, todo,
                   pauses, timedOut, summary, effects>>
    /\ UNCHANGED <<sys_stdout, topic, old_stdout, all_results, raised>>
    /\ UNCHANGED <<webVars, max_pdfs, orphans, jobs, main_dir, output_queue>>
    /\ UNCHANGED <<envVars, workVars, fs>>

\* Line 366: what the finally clause assigns to sys.stdout.
Restored(j) == old_stdout[j]

\* Lines 365-366: finally: sys.stdout = old_stdout; an exception of main goes
\* on to the except clause of line 392.
Finally(j) ==
    /\ jpc[j] \in {"finally", "finallyRaising"}
    /\ sys_stdout' = Restored(j)
    /\ jpc' = [jpc EXCEPT ![j] = IF jpc[j] = "finally" THEN "collect" ELSE "except"]
    /\ UNCHANGED <<topic, old_stdout, all_results, raised>>
    /\ UNCHANGED <<envVars, mainVars, workVars, fs, jobVars>>

\* Lines 383-388: the result stored for a topic that ran.
TopicResult(k, files, log) ==
    [topic |-> k, error |-> FALSE, pdf_count |-> Cardinality(files),
     pdf_files |-> files, log |-> log]

\* Lines 368-390: the log is collected, the .pdf files of the topic's
\* directory are listed and counted (os.listdir may raise) and the result
\* is stored.
Collect(j) ==
    /\ jpc[j] = "collect"
    /\ \E ok \in BOOLEAN :
          IF ok
          THEN /\ all_results' = [all_results EXCEPT ![j] =
                     Append(@, TopicResult(topic[j], temp_dir[j], topic_log[j]))]
               /\ NextTopic(j)
               /\ raised' = raised
          ELSE /\ jpc' = [jpc EXCEPT ![j] = "except"]
               /\ raised' = [raised EXCEPT ![j] = @ \cup {topic[j]}]
               /\ UNCHANGED <<topic, all_results>>
    /\ UNCHANGED <<sys_stdout, old_stdout>>
    /\ UNCHANGED <<envVars, mainVars, workVars, fs, jobVars>>

\* Lines 394-397: the result the except clause stores for the topic; it has
\* no output_dir and no log.
ErrorResult(k) ==
    [topic |-> k, error |-> TRUE, pdf_count |-> 0, pdf_files |-> {},
     log |-> FALSE]

\* Lines 392-397: except Exception: the topic's error is recorded and the
\* loop goes on.
ExceptTopic(j) ==
    /\ jpc[j] = "except"
    /\ all_results' = [all_results EXCEPT ![j] = Append(@, ErrorResult(topic[j]))]
    /\ NextTopic(j)
    /\ UNCHANGED <<sys_stdout, old_stdout, raised>>
    /\ UNCHANGED <<envVars, mainVars, workVars, fs, jobVars>>

RECURSIVE SumCounts(_)
\* run_scraper, lines 84-90: total_pdf_count += result.get('pdf_count', 0).
SumCounts(results) ==
    IF results = <<>> THEN 0
    ELSE Head(results).pdf_count + SumCounts(Tail(results))

\* run_scraper, lines 100-111: shutil.move of every .pdf of every topic
\* directory into the main directory under its own name; a name that is
\* already there is replaced.
Moved(results) == UNION {results[k].pdf_files : k \in DOMAIN results}

\* run_scraper, lines 87-89: the job's log is made of the topics' logs.
TotalOutput(results) == \E k \in DOMAIN results : results[k].log

\* run_scraper, lines 124-128: the message put on the job's stream queue.
Delivery(total, requested) == IF total < requested THEN "warning" ELSE "success"

\* run_scraper, lines 114-121: the registry entry of a job that went through.
Completed(results, requested) ==
    [status |-> "completed",
     warned |-> TotalOutput(results),
     pdf_count |-> SumCounts(results),
     requested_count |-> requested]

\* run_scraper, lines 82-128 and 151-154: counts and logs are added up, the
\* files are moved, the job is registered as completed, the delivery message
\* goes to the stream queue and the queue is taken out of output_queues.
Finish(j) ==
    /\ jpc[j] = "returned"
    /\ jpc' = [jpc EXCEPT ![j] = "finished"]
    /\ main_dir' = [main_dir EXCEPT ![j] = Moved(all_results[j])]
    /\ jobs' = [jobs EXCEPT ![j] = Completed(all_results[j], max_pdfs[j])]
    /\ output_queue' = [output_queue EXCEPT ![j] =
                           [msg |-> Delivery(SumCounts(all_results[j]), max_pdfs[j]),
                            registered |-> FALSE]]
    /\ UNCHANGED <<sys_stdout, topic, old_stdout, all_results, raised>>
    /\ UNCHANGED <<webVars, max_pdfs, temp_dir, topic_log, orphans>>
    /\ UNCHANGED <<envVars, mainVars, workVars, fs>>

FanNext ==
    \/ \E j \in Jobs : StartJob(j)
    \/ \E j \in Jobs : Prepare(j)
    \/ \E j \in Jobs : SaveStdout(j)
    \/ \E j \in Jobs : Redirect(j)
    \/ \E j \in Jobs : RunMain(j)
    \/ \E j \in Jobs : Finally(j)
    \/ \E j \in Jobs : Collect(j)
    \/ \E j \in Jobs : ExceptTopic(j)
    \/ \E j \in Jobs : Finish(j)

\* The counts a job is asked for.
Requests == {1, MaxRequested}

FanInit ==
    /\ args_max = 1
    /\ emailOk = TRUE
    /\ feed = FreeFeed(FALSE)
    /\ InitRun
    /\ InitFan
    /\ \E m \in Requests : InitJobs(m)

FanSpec == FanInit /\ [][FanNext]_vars

(***************************************************************************)
(* process_topics_and_scrape with the scheduler inside: one call, with any *)
(* max_pdfs_per_topic, that runs scrape_pdfs.main once per topic.          *)
(***************************************************************************)
\* The upstream of the call: any answers, with distinct or shared file names
\* or with a title too long for the file name.
TopicFeeds ==
    {FreeFeed(FALSE), FreeFeed(TRUE), [FreeFeed(FALSE) EXCEPT !.long = {1}]}

\* process_topics_and_scrape has been called by job 1; main is not running.
TopicsInit ==
    /\ args_max \in 1..MaxTarget
    /\ emailOk \in BOOLEAN
    /\ feed \in TopicFeeds
    /\ mpc = "off"
    /\ offset = 0
    /\ downloaded = 0
    /\ attempts = 0
    /\ seen_dois = {}
    /\ futures = <<>>
    /\ page = <<>>
    /\ todo = <<>>
    /\ pauses = 0
    /\ timedOut = {}
    /\ summary = [printed |-> FALSE, downloaded |-> 0, warned |-> FALSE]
    /\ effects = [outdir |-> FALSE, searched |-> FALSE, complained |-> FALSE]
    /\ submitted = <<>>
    /\ pc = <<>>
    /\ fate = <<>>
    /\ handle = <<>>
    /\ result = <<>>
    /\ fs = [p \in Paths |-> NoFile]
    /\ sys_stdout = Console
    /\ jpc = [j \in 1..NumJobs |-> IF j = 1 THEN "prepare" ELSE "idle"]
    /\ topic = [j \in 1..NumJobs |-> 1]
    /\ old_stdout = [j \in 1..NumJobs |-> Console]
    /\ all_results = [j \in 1..NumJobs |-> <<>>]
    /\ raised = [j \in 1..NumJobs |-> {}]
    /\ InitJobs(args_max * NumTopics)

TopicsNext ==
    \/ Prepare(1)
    \/ SaveStdout(1)
    \/ Redirect(1)
    \/ BeginMain(1)
    \/ EndMain(1)
    \/ Finally(1)
    \/ Collect(1)
    \/ ExceptTopic(1)
    \/ Next

TopicsSpec == TopicsInit /\ [][TopicsNext]_vars

(***************************************************************************)
(* The scheduler under fair scheduling: the main thread keeps running      *)
(* (every search call returns) and so does each worker thread (every       *)
(* submitted item pipeline runs to its end).                               *)
(***************************************************************************)
MainStep ==
    \/ CheckEmail
    \/ Search
    \/ ExitLoop
    \/ Submit
    \/ TallyResult
    \/ TallyTimeout
    \/ DrainResult
    \/ DrainTimeout
    \/ Shutdown
    \/ Report

WorkerStep ==
    \E f \in Futs :
        \/ Start(f)
        \/ Fetch(f)
        \/ Write(f)
        \/ Except(f)
        \/ CheckExists(f)
        \/ CheckValid(f)
        \/ RemoveInvalid(f)
        \/ CheckSize(f)
        \/ RemoveSmall(f)
        \/ Return(f)

FairSpec == Spec /\ WF_vars(MainStep) /\ WF_vars(WorkerStep)

(***************************************************************************)
(* The job registry of app.py: the request handlers start_scraping,        *)
(* stream_output and download_results, each in a thread of the web server, *)
(* and run_scraper in the threads of the job pool.  They share the         *)
(* dictionaries jobs and output_queues without a lock, so every access to  *)
(* them is a step of its own.  What run_scraper does between registering   *)
(* its queue and storing its result (the topic fan-out above) is one step  *)
(* here.  Request r is the r-th POST /scrape; identifiers are 1..NumJobs.  *)
(***************************************************************************)
\* Line 34: ThreadPoolExecutor(max_workers=3).
JobWorkers == 3

Ids == 1..NumJobs

\* len(jobs): the identifiers that have an entry in the registry.
len_jobs == Cardinality({i \in Ids : jobs[i].status # "none"})

\* get_status, lines 190-193: the status a client is told for an identifier;
\* "none" stands for the 404 of an identifier that is not in jobs.
get_status(i) == IF i \in Ids THEN jobs[i].status ELSE "none"

\* output_queues.get(i): the requests whose queue is the value stored under
\* identifier i (none or one).
Holders(i) == {r \in Jobs : job_id[r] = i /\ output_queue[r].registered}

\* The requests whose run_scraper occupies a thread of the pool.
InPool == {r \in Jobs : rpc[r] \in {"scraping", "stored", "delivered", "failed"}}

\* start_scraping, line 174: job_id = str(len(jobs) + 1).
GenerateId(r) ==
    /\ rpc[r] = "idle"
    /\ job_id' = [job_id EXCEPT ![r] = len_jobs + 1]
    /\ rpc' = [rpc EXCEPT ![r] = "named"]
    /\ UNCHANGED <<spc, response>>
    /\ UNCHANGED <<max_pdfs, temp_dir, topic_log, orphans, jobs, main_dir, output_queue>>
    /\ UNCHANGED <<envVars, mainVars, workVars, fs, fanVars>>

\* start_scraping, lines 177-183: jobs[job_id] = {'status': 'running', ...}
\* and the job is handed to the pool.
Register(r) ==
    /\ rpc[r] = "named"
    /\ jobs' = [jobs EXCEPT ![job_id[r]] = [NoJob EXCEPT !.status = "running"]]
    /\ rpc' = [rpc EXCEPT ![r] = "queued"]
    /\ UNCHANGED <<job_id, spc, response>>
    /\ UNCHANGED <<max_pdfs, temp_dir, topic_log, orphans, main_dir, output_queue>>
    /\ UNCHANGED <<envVars, mainVars, workVars, fs, fanVars>>

\* run_scraper, lines 58-60, once a thread of the pool is free: a new queue
\* is stored under the job's identifier, in the place of any queue that was
\* there.
BeginScraper(r) ==
    /\ rpc[r] = "queued"
    /\ Cardinality(InPool) < JobWorkers
    /\ output_queue' =
          [q \in Jobs |->
              IF q = r THEN [msg |-> "none", registered |-> TRUE]
              ELSE IF job_id[q] = job_id[r]
                   THEN [output_queue[q] EXCEPT !.registered = FALSE]
                   ELSE output_queue[q]]
    /\ rpc' = [rpc EXCEPT ![r] = "scraping"]
    /\ UNCHANGED <<job_id, spc, response>>
    /\ UNCHANGED <<max_pdfs, temp_dir, topic_log, orphans, jobs, main_dir>>
    /\ UNCHANGED <<envVars, mainVars, workVars, fs, fanVars>>

\* run_scraper, lines 62-121 and 130-148: the topics are processed and the
\* result is stored as completed, or something raised (int(...) of line 73,
\* mkdtemp of line 97), the queue is emptied and an error entry is stored.
Scrape(r) ==
    /\ rpc[r] = "scraping"
    /\ \E ok \in BOOLEAN :
          IF ok
          THEN /\ jobs' = [jobs EXCEPT ![job_id[r]] =
                              Completed(all_results[r], max_pdfs[r])]
               /\ rpc' = [rpc EXCEPT ![r] = "stored"]
               /\ output_queue' = output_queue
          ELSE /\ jobs' = [jobs EXCEPT ![job_id[r]] = [NoJob EXCEPT !.status = "error"]]
               /\ rpc' = [rpc EXCEPT ![r] = "failed"]
               /\ output_queue' = [output_queue EXCEPT ![r].msg = "none"]
    /\ UNCHANGED <<job_id, spc, response>>
    /\ UNCHANGED <<max_pdfs, temp_dir, topic_log, orphans, main_dir>>
    /\ UNCHANGED <<envVars, mainVars, workVars, fs, fanVars>>

\* run_scraper, lines 124-128: the delivery message is put on the job's own
\* queue.
Deliver(r) ==
    /\ rpc[r] = "stored"
    /\ output_queue' = [output_queue EXCEPT ![r].msg =
                           Delivery(SumCounts(all_results[r]), max_pdfs[r])]
    /\ rpc' = [rpc EXCEPT ![r] = "delivered"]
    /\ UNCHANGED <<job_id, spc, response>>
    /\ UNCHANGED <<max_pdfs, temp_dir, topic_log, orphans, jobs, main_dir>>
    /\ UNCHANGED <<envVars, mainVars, workVars, fs, fanVars>>

\* run_scraper, lines 151-154: finally: whatever queue is stored under the
\* job's identifier is taken out of output_queues.
Cleanup(r) ==
    /\ rpc[r] \in {"delivered", "failed"}
    /\ output_queue' =
          [q \in Jobs |->
              IF job_id[q] = job_id[r]
              THEN [output_queue[q] EXCEPT !.registered = FALSE]
              ELSE output_queue[q]]
    /\ rpc' = [rpc EXCEPT ![r] = "gone"]
    /\ UNCHANGED <<job_id, spc, response>>
    /\ UNCHANGED <<max_pdfs, temp_dir, topic_log, orphans, jobs, main_dir>>
    /\ UNCHANGED <<envVars, mainVars, workVars, fs, fanVars>>

\* stream_output, lines 198-199 and 223: the request is refused when the
\* identifier has no queue; otherwise the generator starts.
OpenStream(i) ==
    /\ spc[i] \in {"closed", "refused"}
    /\ spc' = [spc EXCEPT ![i] = IF Holders(i) = {} THEN "refused" ELSE "check"]
    /\ UNCHANGED <<job_id, rpc, response>>
    /\ UNCHANGED <<max_pdfs, temp_dir, topic_log, orphans, jobs, main_dir, output_queue>>
    /\ UNCHANGED <<envVars, mainVars, workVars, fs, fanVars>>

\* generate, line 204: job_id not in jobs or its status is not 'running'.
CheckStatus(i) ==
    /\ spc[i] = "check"
    /\ spc' = [spc EXCEPT ![i] = IF jobs[i].status = "running" THEN "poll" ELSE "final"]
    /\ UNCHANGED <<job_id, rpc, response>>
    /\ UNCHANGED <<max_pdfs, temp_dir, topic_log, orphans, jobs, main_dir, output_queue>>
    /\ UNCHANGED <<envVars, mainVars, workVars, fs, fanVars>>

\* generate, lines 216-221: output_queues[job_id].get(timeout=1) yields the
\* message or, on queue.Empty, a keep-alive; the subscript raises KeyError
\* when the identifier has no queue, which nothing catches.
Poll(i) ==
    /\ spc[i] = "poll"
    /\ IF Holders(i) = {}
       THEN /\ spc' = [spc EXCEPT ![i] = "raised"]
            /\ output_queue' = output_queue
       ELSE /\ spc' = [spc EXCEPT ![i] = "check"]
            /\ output_queue' = [q \in Jobs |->
                  IF q \in Holders(i) THEN [output_queue[q] EXCEPT !.msg = "none"]
                  ELSE output_queue[q]]
    /\ UNCHANGED <<job_id, rpc, response>>
    /\ UNCHANGED <<max_pdfs, temp_dir, topic_log, orphans, jobs, main_dir>>
    /\ UNCHANGED <<envVars, mainVars, workVars, fs, fanVars>>

\* generate, lines 206 and 212-213: if job_id in output_queues the queue is
\* to be emptied first; otherwise [JOB COMPLETED] is sent and the stream ends.
Final(i) ==
    /\ spc[i] = "final"
    /\ spc' = [spc EXCEPT ![i] = IF Holders(i) = {} THEN "ended" ELSE "drain"]
    /\ UNCHANGED <<job_id, rpc, response>>
    /\ UNCHANGED <<max_pdfs, temp_dir, topic_log, orphans, jobs, main_dir, output_queue>>
    /\ UNCHANGED <<envVars, mainVars, workVars, fs, fanVars>>

\* generate, lines 207-213, one turn of the loop: while not
\* output_queues[job_id].empty() sends a message that is left; with the
\* queue empty [JOB COMPLETED] is sent and the stream ends.  The subscript
\* raises KeyError when the queue was removed after the test of line 206.
Drain(i) ==
    /\ spc[i] = "drain"
    /\ IF Holders(i) = {}
       THEN /\ spc' = [spc EXCEPT ![i] = "raised"]
            /\ output_queue' = output_queue
       ELSE IF \A q \in Holders(i) : output_queue[q].msg = "none"
       THEN /\ spc' = [spc EXCEPT ![i] = "ended"]
            /\ output_queue' = output_queue
       ELSE /\ spc' = spc
            /\ output_queue' = [q \in Jobs |->
                  IF q \in Holders(i) THEN [output_queue[q] EXCEPT !.msg = "none"]
                  ELSE output_queue[q]]
    /\ UNCHANGED <<job_id, rpc, response>>
    /\ UNCHANGED <<max_pdfs, temp_dir, topic_log, orphans, jobs, main_dir>>
    /\ UNCHANGED <<envVars, mainVars, workVars, fs, fanVars>>

\* download_results, lines 228-245: 404 for an unknown identifier, 400 for
\* a job that is not completed, else the archive of its directory (404 when
\* the directory is gone).
download_results(i) ==
    /\ \E there \in BOOLEAN :
          response' = [response EXCEPT ![i] =
              IF jobs[i].status = "none" THEN "404"
              ELSE IF jobs[i].status # "completed" THEN "400"
              ELSE IF there THEN "archive" ELSE "404"]
    /\ UNCHANGED <<job_id, rpc, spc>>
    /\ UNCHANGED <<max_pdfs, temp_dir, topic_log, orphans, jobs, main_dir, output_queue>>
    /\ UNCHANGED <<envVars, mainVars, workVars, fs, fanVars>>

JobStep(r) ==
    \/ GenerateId(r)
    \/ Register(r)
    \/ BeginScraper(r)
    \/ Scrape(r)
    \/ Deliver(r)
    \/ Cleanup(r)

StreamStep(i) ==
    \/ OpenStream(i)
    \/ CheckStatus(i)
    \/ Poll(i)
    \/ Final(i)
    \/ Drain(i)

WebNext ==
    \/ \E r \in Jobs : JobStep(r)
    \/ \E i \in Ids : StreamStep(i)
    \/ \E i \in Ids : download_results(i)

WebInit ==
    /\ args_max = 1
    /\ emailOk = TRUE
    /\ feed = FreeFeed(FALSE)
    /\ InitRun
    /\ InitFan
    /\ \E m \in Requests : InitJobs(m)

WebSpec == WebInit /\ [][WebNext]_vars

\* The web server's and the pool's threads keep running: every handler and
\* every job goes on to its next step.
FairWebSpec ==
    /\ WebSpec
    /\ \A r \in Jobs : WF_vars(JobStep(r))
    /\ \A i \in Ids : WF_vars(StreamStep(i))

(***************************************************************************)
(* The claims.                                                             *)
(***************************************************************************)

\* C1: the downloaded count printed in the final summary is at most
\* target_count, the successes tallied while draining included.
C1_NeverOvershoot ==
    summary.printed => summary.downloaded <= args_max

\* C2: within one run no identifier is submitted to the item pipeline more
\* than once, whatever pages the search returns.
C2_NoDoubleSubmit ==
    \A f, g \in Futs : f # g => submitted[f] # submitted[g]

\* C2's case: a later page lists an identifier that was submitted from an
\* earlier page; the for loop is about to look at it.
C2_Witness ==
    /\ mpc = "submit"
    /\ offset >= per_page
    /\ page # <<>>
    /\ Head(page) \in seen_dois
    /\ \E f \in Futs : submitted[f] = Head(page)

\* C3: when an item pipeline hands back a Failure after a fetch was
\* attempted, no file exists at that item's destination path.
C3_NoFileAfterFailure ==
    \A f \in Futs :
        (pc[f] = "return" /\ ~result[f].ok) => ~Exists(path(f))

\* C4: when an item pipeline hands back Success, the file at its destination
\* path is at least 1024 bytes long and starts with %PDF.
C4_SuccessHasValidFile ==
    \A f \in Futs :
        (pc[f] = "return" /\ result[f].ok) =>
            /\ Exists(path(f))
            /\ fs[path(f)].size >= 1024
            /\ fs[path(f)].hdr = "%PDF"

\* C5: at every moment the number of item pipelines executing is at most
\* min(target_count, 5), pipelines that timed out in the tally included.
C5_BoundedConcurrency ==
    Cardinality(Running) <= (IF args_max <= 5 THEN args_max ELSE 5)

\* C5's case: the pool is full, one of the running pipelines has already
\* timed out in the tally, and a submitted item is waiting for a thread.
C5_Witness ==
    /\ Cardinality(Running) = (IF args_max <= 5 THEN args_max ELSE 5)
    /\ \E f \in Running : f \in timedOut
    /\ \E g \in Futs : pc[g] = "queued"

\* C6: every run with a valid email terminates and prints its summary,
\* whatever the upstream services answer.
C6_Terminates ==
    <>(mpc = "exit" /\ (emailOk => summary.printed))

\* C6's case: every page was non-empty and held nothing to submit, and the
\* run ended on the offset bound with its summary printed.
C6_Witness ==
    /\ mpc = "exit"
    /\ summary.printed
    /\ attempts = 0
    /\ offset >= args_max * 3 * 5

\* C7: a run that started work ends reporting the downloaded count, with the
\* shortfall warning if and only if that count is below target_count.
C7_ReportsShortfall ==
    (mpc = "exit" /\ emailOk) =>
        /\ summary.printed
        /\ summary.downloaded = downloaded
        /\ summary.warned <=> (downloaded < args_max)

\* C7's case: the run ended with some, but not enough, PDFs and warned.
C7_Witness ==
    /\ mpc = "exit"
    /\ summary.printed
    /\ summary.downloaded > 0
    /\ summary.downloaded < args_max
    /\ summary.warned

\* C8: in the scenario (target 5, 3 pages of 20, 5 good works anywhere among
\* the 60) the run reports downloaded=5 and prints no shortfall warning.
C8_ScenarioReportsFive ==
    (feed.scripted /\ mpc = "exit") =>
        /\ summary.printed
        /\ summary.downloaded = 5
        /\ ~summary.warned

\* C9: an item whose fetch delivered fewer than 1024 bytes ends in a Failure
\* whose reason is "too small".
C9_TooSmallReason ==
    \A f \in Futs :
        (pc[f] = "done" /\ fate[f] = "small") =>
            /\ ~result[f].ok
            /\ result[f].msg = "too small"

\* C10: a topic whose processing raised gets an error result with pdf_count
\* 0, every topic of the map gets a result, and when the topic after a
\* failed one starts, sys.stdout is no longer the failed topic's stream.
C10_TopicErrorIsolated ==
    \A j \in Jobs :
        /\ jpc[j] = "returned" =>
              /\ Len(all_results[j]) = NumTopics
              /\ \A k \in raised[j] :
                    all_results[j][k].error /\ all_results[j][k].pdf_count = 0
        /\ (jpc[j] = "prepare" /\ topic[j] > 1 /\ (topic[j] - 1) \in raised[j]) =>
              sys_stdout # StreamToQueue(j, topic[j] - 1)

\* C11: after the merge the consolidated directory holds one file for each
\* PDF counted in the per-topic results: the job's total pdf_count equals the
\* number of files in the merged directory.
C11_MergedCountMatches ==
    \A j \in Jobs :
        jobs[j].status = "completed" => jobs[j].pdf_count = Cardinality(main_dir[j])

\* C12: the log of every job completed with fewer PDFs than requested holds
\* an explicit shortfall warning.
C12_ShortfallInLog ==
    \A j \in Jobs :
        (jobs[j].status = "completed" /\ jobs[j].pdf_count < jobs[j].requested_count)
            => jobs[j].warned

\* C13: against fixed upstream responses the final downloaded count is the
\* same for every interleaving of the item pipelines: it is the count of the
\* run in which the pipelines run one after the other, where every work
\* with a valid OA PDF is saved and tallied.
C13_SameCountEveryInterleaving ==
    (feed.scripted /\ mpc = "exit") => summary.downloaded = Cardinality(feed.good)

\* C14: with a missing or malformed email main reports it and returns before
\* any work: no output directory, no search, no submitted item, no file.
C14_InvalidEmailDoesNothing ==
    ~emailOk =>
        /\ mpc \in {"start", "exit"}
        /\ mpc = "exit" => effects.complained
        /\ ~effects.outdir
        /\ ~effects.searched
        /\ Futs = {}
        /\ attempts = 0
        /\ \A p \in Paths : ~Exists(p)
        /\ ~summary.printed

\* C14's case: main was called with a bad email and has returned.
C14_Witness ==
    /\ ~emailOk
    /\ mpc = "exit"
    /\ effects.complained

\* C15: the topics of a job are processed one after the other: whenever main
\* is not running, and so when the next topic's main is called and issues
\* its first search, no item pipeline of an earlier topic is still running,
\* the ones that timed out in the tally included.
C15_TopicsOneAfterAnother ==
    /\ orphans = 0
    /\ mpc \in {"off", "exit"} => \A f \in Futs : Done(f)

\* C15's case: the first topic's run submitted an item that timed out in the
\* tally, has returned, and main is about to be called for the second topic.
C15_Witness ==
    /\ topic[1] = 2
    /\ jpc[1] = "run"
    /\ timedOut # {}
    /\ Len(all_results[1]) = 1

\* C16: the scheduler leaves its search loop on the loop test only when
\* downloaded >= target_count, attempts >= target_count * 3 or offset has
\* advanced beyond target_count * 3 * page_size; otherwise it searches the
\* next page (and stops if that page has no candidates).
C16_StopsOnlyForListedReasons ==
    [][ExitLoop =>
          \/ downloaded >= args_max
          \/ attempts >= args_max * 3
          \/ offset > args_max * 3 * per_page]_vars

\* C17: when the scheduler has fetched a further page after tallying a batch
\* with the target not yet met, it has paused between that tally and the
\* search.
C17_PausedBeforeNextPage ==
    (/\ mpc = "submit"
     /\ \E f \in Futs : \A i \in DOMAIN futures : futures[i] # f)
        => pauses > 0

\* C18: every candidate of a fetched page that has an identifier not yet seen
\* is marked seen and submitted before the next page is fetched.  Against the
\* scripted search, whose page at offset o lists the works o+1..o+20, every
\* work up to the current offset has been seen.
C18_NoCandidateSkipped ==
    feed.scripted => \A d \in Dois : d <= offset => d \in seen_dois

\* C19: an item that timed out in the tally counts like a failed one: it is
\* not in downloaded and it adds nothing to the pdf_count of its topic, also
\* if its pipeline succeeds later.  Once the topic's result is stored (and
\* until main is called for the next topic), both counts are at most the
\* number of successful items that did not time out.
C19_TimedOutNeverCounted ==
    LET results == all_results[1]
        counted == {f \in Futs : result[f].ok /\ f \notin timedOut}
    IN  (/\ jpc[1] \in {"prepare", "save", "redirect", "run", "returned"}
         /\ results # <<>>
         /\ ~results[Len(results)].error) =>
            /\ downloaded <= Cardinality(counted)
            /\ results[Len(results)].pdf_count <= Cardinality(counted)

\* C20: the pdf_count of a topic's result (the files ending in .pdf found in
\* the topic's directory after the run) equals the scheduler's final
\* downloaded for that topic.
C20_PdfCountIsDownloaded ==
    LET results == all_results[1]
    IN  (/\ jpc[1] \in {"prepare", "save", "redirect", "run", "returned"}
         /\ results # <<>>
         /\ ~results[Len(results)].error) =>
            results[Len(results)].pdf_count = downloaded

\* C22: the number of identifiers submitted to the item pipeline in one run
\* (attempts) is never above target_count * 3, whatever the pages hold.
C22_AttemptsBounded ==
    attempts <= args_max * 3

\* C23: once an item's outcome is Success, no step of any pipeline deletes,
\* truncates or rewrites the file at its destination path, also when two
\* works have the same date, journal and title.
C23_SavedFileStays ==
    [][\A f \in Futs : result[f].ok => fs'[path(f)] = fs[path(f)]]_vars

\* C25: however the jobs of the pool interleave, once all of them have
\* finished sys.stdout is again the stream the process had before any job
\* started, and while a topic's main runs sys.stdout is that topic's stream.
C25_StdoutRestored ==
    /\ (\A j \in Jobs : jpc[j] = "finished") => sys_stdout = Console
    /\ \A j \in Jobs : jpc[j] = "run" => sys_stdout = StreamToQueue(j, topic[j])

\* C24: any two accepted submissions, also when their handlers run at the
\* same time, get distinct job identifiers, and while a job runs the queue
\* stored under its identifier is its own.
C24_DistinctJobIds ==
    /\ \A r, q \in Jobs : (r # q /\ job_id[r] # 0) => job_id[r] # job_id[q]
    /\ \A r \in Jobs : rpc[r] \in {"scraping", "stored", "delivered"} =>
                          output_queue[r].registered

\* C21: a submitted job has status running from its submission on, it
\* eventually gets status completed or error, a status completed or error
\* never turns into running again, and download_results hands out an archive
\* only for a job whose status is completed.
C21_JobStatusLifecycle ==
    /\ [](\A r \in Jobs : rpc[r] \in {"queued", "scraping"} =>
                             get_status(job_id[r]) = "running")
    /\ \A r \in Jobs : (rpc[r] = "queued") ~>
                          (get_status(job_id[r]) \in {"completed", "error"})
    /\ [][\A i \in Ids : jobs[i].status \in {"completed", "error"} =>
                            jobs'[i].status # "running"]_vars
    /\ [][\A i \in Ids : (response'[i] = "archive" /\ response[i] # "archive") =>
                            jobs[i].status = "completed"]_vars

\* C26: a log stream that was opened for a job eventually sends
\* [JOB COMPLETED] and ends, and never ends by an exception, however its
\* polling interleaves with the job's completion and the removal of its
\* queue.
C26_StreamEndsWithMarker ==
    /\ [](\A i \in Ids : spc[i] # "raised")
    /\ \A i \in Ids : (spc[i] = "check") ~> (spc[i] = "ended")

====
